---- MODULE Spec2Model ----
(***************************************************************************)
(* ACER (actor-critic with experience replay) of stable-baselines:         *)
(*   baselines/acer/buffer.py       the replay Buffer                      *)
(*   baselines/acer/acer_simple.py  q_retrace, Runner, Acer.call, learn    *)
(*                                                                         *)
(* Arrays are modelled with the layout the code gives them.  A numpy array *)
(* indexed [slot, env, step] is a function slot -> env -> sequence; slots  *)
(* and environments are numbered from 0 as in the code, the step axis is a *)
(* TLA+ sequence (index k of the model is index k-1 of the code).  Booleans*)
(* stored in arrays are 0/1, as numpy uses them in arithmetic (1.0-dones). *)
(* One frame (height x width x channels of uint8) is one number.           *)
(***************************************************************************)
EXTENDS Integers, Sequences, FiniteSets, TLC

VARIABLES
    \* configuration, fixed at construction
    n_steps, n_stack, size,
    \* Buffer
    enc_obs, actions, rewards, mus, dones, masks, next_idx, num_in_buffer,
    \* the last operation, what it returned and the exception it raised
    op, ret, err,
    \* history: the batches put so far, in order (a client's batch by its tag)
    history,
    \* learn loop
    pc, steps, total_timesteps, replay_ratio, replay_start, samples_number, remaining,
    \* Runner, and the episode length of the environments it steps
    obs, runner_dones, ep_length,
    \* bookkeeping of the learn loop: environment steps, cycles, updates of the cycle
    env_steps, cycle, n_on, n_off, n_put, drawn,
    \* input and output of the functions (decode, q_retrace, the trust-region
    \* projection); hyperparameters and state of the Model under Model.train
    \* and of the TRPO and deepq learn loops and the
    \* IdentityEnv
    fin, fout

cfgVars == <<n_steps, n_stack, size>>
bufVars == <<enc_obs, actions, rewards, mus, dones, masks, next_idx, num_in_buffer>>
callVars == <<op, ret, err>>
learnVars == <<pc, steps, total_timesteps, replay_ratio, replay_start, samples_number, remaining>>
runnerVars == <<obs, runner_dones, ep_length>>
countVars == <<env_steps, cycle, n_on, n_off, n_put, drawn>>
funVars == <<fin, fout>>
vars == <<cfgVars, bufVars, callVars, history, learnVars, runnerVars, countVars, funVars>>

(***************************************************************************)
(* Bounds of the model.                                                    *)
(***************************************************************************)
\* number of parallel environments (env.num_envs)
NEnv == 2
\* n_steps ranges over 1..MaxNSteps
MaxNSteps == 2
\* buffer_size (in steps) ranges over 0..MaxBufferSize
MaxBufferSize == 3
\* a Buffer client puts at most MaxPuts batches
MaxPuts == 3
\* the contents of a client's batch are chosen among MaxTag ones
MaxTag == 2
\* has_atleast is asked for 0..MaxFrames frames
MaxFrames == 3
\* replay_start ranges over 0..MaxReplayStart
MaxReplayStart == 3
\* total_timesteps ranges over 0..MaxTotal
MaxTotal == 6
\* a Poisson draw is one of 0..MaxPoisson
MaxPoisson == 2
\* decode is applied to traces of 1..MaxDecodeSteps steps
MaxDecodeSteps == 4
\* q_retrace is applied to 1..MaxRetraceSteps steps
MaxRetraceSteps == 2
\* Model.train is called at most MaxTrainCalls times
MaxTrainCalls == 3
\* eps of Model.__init__ (line 102) is 1e-6, whose squares do not fit TLC's
\* integers: the trust-region arithmetic is computed with eps = 1 / EpsInv, a
\* positive constant as in the code
EpsInv == 3
\* deepq learn runs max_timesteps steps, 0..MaxTimesteps
MaxTimesteps == 4
\* learning_starts of deepq learn, 0..MaxLearningStarts
MaxLearningStarts == 1
\* train_freq and target_network_update_freq of deepq learn, 1..MaxFreq
MaxFreq == 2
\* IdentityEnv: dim in 1..MaxDim, ep_length in 1..MaxIdEpLength, and at most
\* MaxIdSteps steps are taken after a reset
MaxDim == 2
MaxIdEpLength == 3
MaxIdSteps == 5
\* TRPO learn runs max_iters iterations, 1..MaxIters
MaxIters == 2
\* the cycle at whose end a caller of learn would ask the loop to stop
StopAfter == 1
\* environment i ends an episode every ep_length + i steps, ep_length in 1..MaxEpLen
MaxEpLen == 2
MaxHorizon == 2
MaxTrajSteps == 5

Envs == 0 .. (NEnv - 1)
NStacks == {1, 2, 4}
Min(a, b) == IF a <= b THEN a ELSE b
Max(a, b) == IF a >= b THEN a ELSE b

(***************************************************************************)
(* numpy helpers                                                           *)
(***************************************************************************)
\* the content of memory np.empty returns: not written yet
Uninit == -1
\* self.enc_obs = None
None == [alloc |-> FALSE, data |-> <<>>]
\* np.empty([size] + list(x.shape)): size cells shaped like x, not written
np_empty2(n, x) ==
    [alloc |-> TRUE,
     data |-> [s \in 0 .. (n - 1) |-> [i \in DOMAIN x |-> [k \in DOMAIN x[i] |-> Uninit]]]]
np_empty3(n, x) ==
    [alloc |-> TRUE,
     data |-> [s \in 0 .. (n - 1) |->
                 [i \in DOMAIN x |-> [k \in DOMAIN x[i] |->
                     [a \in DOMAIN x[i][k] |-> Uninit]]]]]
\* arr[idx] = x
setitem(arr, idx, x) == [arr EXCEPT !.data = [@ EXCEPT ![idx] = x]]

(***************************************************************************)
(* Buffer (buffer.py)                                                      *)
(***************************************************************************)
\* Buffer.__init__: size = size // self.n_steps
buffer_capacity(buffer_size, ns) == buffer_size \div ns

\* Buffer.has_atleast(frames)
has_atleast(frames) == num_in_buffer >= (frames \div n_steps)

\* a can_sample that accepts the empty buffer
can_sample_always == num_in_buffer >= 0
\* Buffer.can_sample()
can_sample == num_in_buffer > 0

\* the offset written into decode: y_var[3:], y_var[:3], obs[:, 3:]
DecodeOffset == 3

\* decode, lines 66-71: y_var (the keep mask) of one environment.  y_var[3:] is
\* assigned the n_steps rows of 1.0 - dones, which numpy accepts when the target
\* has n_steps rows or when there is one row to broadcast; then y_var[:3] = 1.0.
decode_y_ok(ns, nk) ==
    \/ Max(0, (ns + nk - 1) - DecodeOffset) = ns
    \/ ns = 1
\* a keep mask that keeps every frame
decode_y_keep_all(dones_row, ns, nk) == [j \in 1 .. (ns + nk - 1) |-> 1]
decode_y(dones_row, ns, nk) ==
    [j \in 1 .. (ns + nk - 1) |->
        IF j - 1 < DecodeOffset THEN 1
        ELSE IF ns = 1 THEN 1 - dones_row[1]
        ELSE 1 - dones_row[(j - 1) - DecodeOffset + 1]]

\* decode, lines 73-77: entry j of x_var at the start of iteration i of the loop.
\* Each iteration does x_var = x_var[:-1] * y_var; y_var = y_var[1:], so entry j
\* has been multiplied by y_var[j] of iterations 0 .. i-1, and y_var of
\* iteration m is the first y_var shifted by m.
RECURSIVE decode_x(_, _, _, _)
decode_x(enc_row, y, i, j) ==
    IF i = 0 THEN enc_row[j]
    ELSE decode_x(enc_row, y, i - 1, j) * y[j + (i - 1)]

\* decode, line 74: obs[-(i + 1), i:] = x_var on np.zeros; entry tau (from 0)
decode_obs(enc_row, y, i, tau) ==
    IF tau >= i THEN decode_x(enc_row, y, i, tau - i + 1) ELSE 0

\* decode, line 78: obs[:, 3:] has these many steps, reshaped to n_steps + 1
decode_reshape_ok(ns, nk) == Max(0, (ns + nk) - DecodeOffset) = ns + 1

\* Buffer.decode for one environment: n_steps + 1 stacks of n_stack frames, the
\* newest frame last (stack position p is obs[p - 1], written by iteration
\* n_stack - p)
decode_row(enc_row, dones_row, ns, nk) ==
    LET y == decode_y(dones_row, ns, nk)
    IN  [t \in 1 .. (ns + 1) |->
            [p \in 1 .. nk |-> decode_obs(enc_row, y, nk - p, DecodeOffset + (t - 1))]]

\* Buffer.decode returns; numpy raises ValueError otherwise
decode_ok(ns, nk) == decode_y_ok(ns, nk) /\ decode_reshape_ok(ns, nk)

\* Buffer.decode, what it returns
decode(enc, dn, ns, nk) == [i \in Envs |-> decode_row(enc[i], dn[i], ns, nk)]

\* a take that reads every row from the first environment
take_first_env(arr, idx, envx) == [i \in Envs |-> arr.data[idx[i]][envx[0]]]
\* Buffer.take(arr, idx, envx)
take(arr, idx, envx) == [i \in Envs |-> arr.data[idx[i]][envx[i]]]

\* np.arange(n_env)
arange == [i \in Envs |-> i]

\* Buffer.get, lines 144-154, for the drawn idx: what it returns
get(idx) ==
    [kind |-> "batch", idx |-> idx,
     enc_obs |-> take(enc_obs, idx, arange),
     obs |-> decode(take(enc_obs, idx, arange), take(dones, idx, arange), n_steps, n_stack),
     actions |-> take(actions, idx, arange), rewards |-> take(rewards, idx, arange),
     mus |-> take(mus, idx, arange), dones |-> take(dones, idx, arange),
     masks |-> take(masks, idx, arange)]

\* arrays allocated anew at every put
put_alloc_always(arr, x, empty) == empty

\* Buffer.put, lines 96-102: the arrays are allocated when self.enc_obs is None
put_alloc(arr, x, empty) == IF enc_obs.alloc THEN arr ELSE empty

\* a put that stops at the last slot instead of wrapping around
next_idx_saturating == Min(next_idx + 1, size - 1)
\* Buffer.put, line 111: the slot after next_idx, circularly
next_idx_after_put == (next_idx + 1) % size

\* Buffer.put: index next_idx exists (numpy raises IndexError otherwise)
put_index_ok == next_idx < size

\* Buffer.put, the state it leaves.  With no slot at next_idx the first store
\* (line 104) raises after the allocation.
put(b) ==
    /\ enc_obs' = IF put_index_ok
                  THEN setitem(put_alloc(enc_obs, b.enc_obs, np_empty2(size, b.enc_obs)), next_idx, b.enc_obs)
                  ELSE put_alloc(enc_obs, b.enc_obs, np_empty2(size, b.enc_obs))
    /\ actions' = IF put_index_ok
                  THEN setitem(put_alloc(actions, b.actions, np_empty2(size, b.actions)), next_idx, b.actions)
                  ELSE put_alloc(actions, b.actions, np_empty2(size, b.actions))
    /\ rewards' = IF put_index_ok
                  THEN setitem(put_alloc(rewards, b.rewards, np_empty2(size, b.rewards)), next_idx, b.rewards)
                  ELSE put_alloc(rewards, b.rewards, np_empty2(size, b.rewards))
    /\ mus' = IF put_index_ok
              THEN setitem(put_alloc(mus, b.mus, np_empty3(size, b.mus)), next_idx, b.mus)
              ELSE put_alloc(mus, b.mus, np_empty3(size, b.mus))
    /\ dones' = IF put_index_ok
                THEN setitem(put_alloc(dones, b.dones, np_empty2(size, b.dones)), next_idx, b.dones)
                ELSE put_alloc(dones, b.dones, np_empty2(size, b.dones))
    /\ masks' = IF put_index_ok
                THEN setitem(put_alloc(masks, b.masks, np_empty2(size, b.masks)), next_idx, b.masks)
                ELSE put_alloc(masks, b.masks, np_empty2(size, b.masks))
    /\ next_idx' = IF put_index_ok THEN next_idx_after_put ELSE next_idx
    /\ num_in_buffer' = IF put_index_ok THEN Min(size, num_in_buffer + 1) ELSE num_in_buffer

(***************************************************************************)
(* A client of the Buffer: any sequence of put, get, has_atleast and       *)
(* can_sample calls, on a Buffer of any configuration.                     *)
(***************************************************************************)
\* mus rows are probability vectors over the two actions
one_hot(a) == [x \in 0 .. 1 |-> IF x = a THEN 1 ELSE 0]

\* a batch with the shapes put documents (lines 92-94); its contents differ by
\* tag, environment and step, and an even tag holds termination flags
MkBatch(tag, ns, nk) ==
    LET b_dones == [i \in Envs |-> [t \in 1 .. ns |-> IF tag % 2 = 0 THEN (i + t) % 2 ELSE 0]]
        b_actions == [i \in Envs |-> [t \in 1 .. ns |-> (tag + i + t) % 2]]
    IN  [enc_obs |-> [i \in Envs |-> [k \in 1 .. (ns + nk) |-> tag * 40 + i * 10 + k]],
         actions |-> b_actions,
         rewards |-> [i \in Envs |-> [t \in 1 .. ns |-> (tag * t + i) % 3]],
         mus |-> [i \in Envs |-> [t \in 1 .. ns |-> one_hot(b_actions[i][t])]],
         dones |-> b_dones,
         masks |-> [i \in Envs |-> [t \in 1 .. (ns + 1) |-> IF t = 1 THEN 0 ELSE b_dones[i][t - 1]]]]

NoRet == [kind |-> "none"]

\* the variables of the learn loop and the Runner, unused
IdleRestOfLearn ==
    /\ pc = "idle" /\ steps = 0 /\ total_timesteps = 0 /\ replay_ratio = 0
    /\ replay_start = 0 /\ samples_number = 0 /\ remaining = 0
    /\ obs = <<>> /\ runner_dones = <<>> /\ ep_length = 0
    /\ env_steps = 0 /\ cycle = 0 /\ n_on = 0 /\ n_off = 0 /\ n_put = 0 /\ drawn = 0

\* Buffer.__init__
BufferInit(buffer_size) ==
    /\ size = buffer_capacity(buffer_size, n_steps)
    /\ enc_obs = None /\ actions = None /\ rewards = None
    /\ mus = None /\ dones = None /\ masks = None
    /\ next_idx = 0 /\ num_in_buffer = 0
    /\ history = <<>>

InitBuffer ==
    /\ n_steps \in 1 .. MaxNSteps
    /\ n_stack \in NStacks
    /\ \E buffer_size \in 0 .. MaxBufferSize : BufferInit(buffer_size)
    /\ op = "init" /\ ret = NoRet /\ err = "none"
    /\ IdleRestOfLearn
    /\ fin = <<>> /\ fout = <<>>

\* buffer.put(batch)
BufPut ==
    /\ Len(history) < MaxPuts
    /\ \E tag \in 1 .. MaxTag :
           /\ put(MkBatch(tag, n_steps, n_stack))
           /\ history' = IF put_index_ok THEN Append(history, tag) ELSE history
    /\ op' = "put" /\ ret' = NoRet
    /\ err' = IF put_index_ok THEN "none" ELSE "IndexError"
    /\ UNCHANGED <<cfgVars, learnVars, runnerVars, countVars, funVars>>

\* what get raises on an empty buffer: assert self.can_sample()
EmptyBufferError == "AssertionError"

\* buffer.get(): the assert of line 141, then one index per environment drawn
\* by np.random.randint(0, num_in_buffer, n_env); decode may raise ValueError
BufGet ==
    /\ IF ~can_sample
       THEN /\ err' = EmptyBufferError
            /\ ret' = NoRet
       ELSE \E idx \in [Envs -> 0 .. (num_in_buffer - 1)] :
                /\ err' = IF decode_ok(n_steps, n_stack) THEN "none" ELSE "ValueError"
                /\ ret' = IF decode_ok(n_steps, n_stack) THEN get(idx) ELSE NoRet
    /\ op' = "get"
    /\ UNCHANGED <<cfgVars, bufVars, history, learnVars, runnerVars, countVars, funVars>>

\* buffer.has_atleast(frames)
BufHasAtleast ==
    /\ \E frames \in 0 .. MaxFrames :
           ret' = [kind |-> "bool", frames |-> frames, val |-> has_atleast(frames)]
    /\ op' = "has_atleast" /\ err' = "none"
    /\ UNCHANGED <<cfgVars, bufVars, history, learnVars, runnerVars, countVars, funVars>>

\* buffer.can_sample()
BufCanSample ==
    /\ ret' = [kind |-> "bool", val |-> can_sample]
    /\ op' = "can_sample" /\ err' = "none"
    /\ UNCHANGED <<cfgVars, bufVars, history, learnVars, runnerVars, countVars, funVars>>

NextBuffer == BufPut \/ BufGet \/ BufHasAtleast \/ BufCanSample

SpecBuffer == InitBuffer /\ [][NextBuffer]_vars


(***************************************************************************)
(* The environment pool and the policy the Runner steps (acer_simple.py    *)
(* lines 280, 305, 310).  Both are collaborators: the environments emit    *)
(* frames numbered in time order and end an episode every ep_length + i    *)
(* steps, the policy acts on the newest frame.                             *)
(***************************************************************************)
\* obs of environment i returned by env.reset() (s = 0) or by the s-th env.step
EnvFrame(s, i) == s * NEnv + i + 1
\* the termination flag of environment i returned by the s-th env.step
EnvDone(s, i) == IF s % (ep_length + i) = 0 THEN 1 ELSE 0
\* the reward of environment i for action a at the s-th env.step
EnvReward(s, i, a) == IF a = (s + i) % 2 THEN 1 ELSE 0
\* model.step on the stack of one environment: the action sampled
ModelStep(stack) == stack[Len(stack)] % 2

(***************************************************************************)
(* Runner (acer_simple.py)                                                 *)
(***************************************************************************)
\* the stack of a terminated environment not zeroed
update_obs_no_zero(o, frames, dn, has_dones) ==
    [i \in Envs |-> [p \in 1 .. n_stack |-> IF p = n_stack THEN frames[i] ELSE o[i][p + 1]]]

\* Runner.update_obs(obs, dones): the stack of a terminated environment is
\* zeroed, the stack is rolled by one frame and the new frame written last
update_obs(o, frames, dn, has_dones) ==
    [i \in Envs |->
        [p \in 1 .. n_stack |->
            IF p = n_stack THEN frames[i]
            ELSE IF has_dones THEN o[i][p + 1] * (1 - dn[i]) ELSE o[i][p + 1]]]

\* Runner.__init__: self.obs = np.zeros(...); obs = env.reset(); update_obs(obs)
RunnerInit ==
    /\ obs = update_obs([i \in Envs |-> [p \in 1 .. n_stack |-> 0]],
                        [i \in Envs |-> EnvFrame(0, i)], <<>>, FALSE)
    /\ runner_dones = [i \in Envs |-> 0]
    /\ env_steps = 0

\* the stack left as it was at the start of the run
run_obs_stale(t) == obs

\* Runner.run: self.obs after t steps of the loop; env_steps counts the env.step
\* calls made before this run
RECURSIVE run_obs(_)
run_obs(t) ==
    IF t = 0 THEN obs
    ELSE update_obs(run_obs(t - 1), [i \in Envs |-> EnvFrame(env_steps + t, i)],
                    [i \in Envs |-> EnvDone(env_steps + t, i)], TRUE)

\* self.dones never rebound inside the loop
run_dones_stale(t) == runner_dones
\* Runner.run: self.dones after t steps of the loop
run_dones(t) == IF t = 0 THEN runner_dones ELSE [i \in Envs |-> EnvDone(env_steps + t, i)]

\* Runner.run, what it returns: enc_obs are the n_stack frames of the stack at
\* the start (np.split) followed by the n_steps new frames; obs and masks hold
\* the stack and self.dones before each step and after the last; dones is
\* mb_dones[:, 1:]
runner_run ==
    LET act(i, t) == ModelStep(run_obs(t - 1)[i])
    IN  [enc_obs |-> [i \in Envs |-> [k \in 1 .. (n_steps + n_stack) |->
                        IF k <= n_stack THEN obs[i][k]
                        ELSE EnvFrame(env_steps + (k - n_stack), i)]],
         obs |-> [i \in Envs |-> [t \in 1 .. (n_steps + 1) |-> run_obs(t - 1)[i]]],
         actions |-> [i \in Envs |-> [t \in 1 .. n_steps |-> act(i, t)]],
         rewards |-> [i \in Envs |-> [t \in 1 .. n_steps |->
                        EnvReward(env_steps + t, i, act(i, t))]],
         mus |-> [i \in Envs |-> [t \in 1 .. n_steps |-> one_hot(act(i, t))]],
         dones |-> [i \in Envs |-> [t \in 1 .. n_steps |-> run_dones(t)[i]]],
         masks |-> [i \in Envs |-> [t \in 1 .. (n_steps + 1) |-> run_dones(t - 1)[i]]]]

(***************************************************************************)
(* Acer.call and learn (acer_simple.py)                                    *)
(***************************************************************************)
\* learn, lines 446-449: a Buffer is built when replay_ratio > 0, else None
buffer_exists == replay_ratio > 0

\* learn, line 450
n_batch == NEnv * n_steps

\* acer.steps before the loop (Acer.__init__: self.steps = None)
NoSteps == -1

\* replay_ratio: replay disabled, or the default of learn
ReplayRatios == {0, 4}

InitLearn ==
    /\ n_steps \in 1 .. MaxNSteps
    /\ n_stack \in NStacks
    /\ replay_ratio \in ReplayRatios
    /\ replay_start \in 0 .. MaxReplayStart
    /\ total_timesteps \in 0 .. MaxTotal
    /\ ep_length \in 1 .. MaxEpLen
    /\ RunnerInit
    /\ \E buffer_size \in 0 .. MaxBufferSize :
           BufferInit(IF buffer_exists THEN buffer_size ELSE 0)
    /\ op = "init" /\ ret = NoRet /\ err = "none"
    /\ pc = "loop" /\ steps = NoSteps /\ samples_number = 0 /\ remaining = 0
    /\ cycle = 0 /\ n_on = 0 /\ n_off = 0 /\ n_put = 0 /\ drawn = 0
    /\ fin = <<>> /\ fout = <<>>

\* learn, lines 453 and 461: the next value of range(0, total_timesteps,
\* n_batch) is bound to acer.steps, or the loop ends and env.close() is called
LearnLoop ==
    /\ pc = "loop"
    /\ IF cycle * n_batch < total_timesteps
       THEN /\ steps' = cycle * n_batch
            /\ cycle' = cycle + 1
            /\ pc' = "on_policy"
            /\ n_on' = 0 /\ n_off' = 0 /\ n_put' = 0 /\ drawn' = 0
       ELSE /\ pc' = "closed"
            /\ UNCHANGED <<steps, cycle, n_on, n_off, n_put, drawn>>
    /\ UNCHANGED <<cfgVars, bufVars, callVars, history, total_timesteps, replay_ratio,
                   replay_start, samples_number, remaining, runnerVars, env_steps, funVars>>

\* a call that never stores the batch
call_puts_never == FALSE
\* Acer.call, line 366: if buffer is not None
call_puts == buffer_exists

\* Acer.call(on_policy), lines 362-380.  On policy: runner.run(), then
\* buffer.put when there is a buffer; off policy: buffer.get().  Then one
\* model.train with acer.steps.  An exception raised on the way ends learn.
AcerCall(on_policy) ==
    /\ IF on_policy
       THEN /\ obs' = run_obs(n_steps)
            /\ runner_dones' = run_dones(n_steps)
            /\ env_steps' = env_steps + n_steps
            /\ IF call_puts
               THEN /\ put(runner_run)
                    /\ history' = IF put_index_ok THEN Append(history, cycle) ELSE history
                    /\ n_put' = IF put_index_ok THEN n_put + 1 ELSE n_put
                    /\ err' = IF put_index_ok THEN "none" ELSE "IndexError"
               ELSE /\ UNCHANGED <<bufVars, history, n_put>>
                    /\ err' = "none"
            /\ op' = "run"
       ELSE /\ IF ~can_sample
               THEN err' = EmptyBufferError
               ELSE \E idx \in [Envs -> 0 .. (num_in_buffer - 1)] :
                        err' = IF decode_ok(n_steps, n_stack) THEN "none" ELSE "ValueError"
            /\ op' = "get"
            /\ UNCHANGED <<bufVars, history, n_put, obs, runner_dones, env_steps>>
    /\ IF err' = "none"
       THEN /\ ret' = [kind |-> "train", on_policy |-> on_policy, steps |-> steps]
            /\ n_on' = IF on_policy THEN n_on + 1 ELSE n_on
            /\ n_off' = IF on_policy THEN n_off ELSE n_off + 1
       ELSE /\ ret' = NoRet
            /\ UNCHANGED <<n_on, n_off>>
    /\ UNCHANGED <<cfgVars, ep_length, cycle, drawn, steps, total_timesteps,
                   replay_ratio, replay_start, samples_number, funVars>>

\* learn, line 455: acer.call(on_policy=True)
LearnOnPolicy ==
    /\ pc = "on_policy"
    /\ AcerCall(TRUE)
    /\ pc' = IF err' = "none" THEN "gate" ELSE "crashed"
    /\ UNCHANGED remaining

\* a gate that does not wait for replay_start frames
replay_gate_no_threshold == replay_ratio > 0
\* learn, line 456: the condition of the off-policy phase
replay_gate == replay_ratio > 0 /\ has_atleast(replay_start)

\* learn, lines 456-458: the gate, and the draw np.random.poisson(replay_ratio)
LearnGate ==
    /\ pc = "gate"
    /\ IF replay_gate
       THEN /\ \E k \in 0 .. MaxPoisson : samples_number' = k /\ remaining' = k
            /\ drawn' = 1
            /\ pc' = "off_policy"
       ELSE /\ pc' = "loop"
            /\ UNCHANGED <<samples_number, remaining, drawn>>
    /\ UNCHANGED <<cfgVars, bufVars, callVars, history, steps, total_timesteps, replay_ratio,
                   replay_start, runnerVars, env_steps, cycle, n_on, n_off, n_put, funVars>>

\* an off-policy phase that calls acer.call(on_policy=True)
replay_call_on_policy_true == TRUE
\* learn, line 459: the argument of the call in the off-policy phase
replay_call_on_policy == FALSE

\* learn, lines 458-459: one iteration of for _ in range(samples_number)
LearnOffPolicy ==
    /\ pc = "off_policy" /\ remaining > 0
    /\ AcerCall(replay_call_on_policy)
    /\ remaining' = remaining - 1
    /\ pc' = IF err' = "none" THEN "off_policy" ELSE "crashed"

\* learn, line 458: range(samples_number) is exhausted
LearnReplayDone ==
    /\ pc = "off_policy" /\ remaining = 0
    /\ pc' = "loop"
    /\ UNCHANGED <<cfgVars, bufVars, callVars, history, steps, total_timesteps, replay_ratio,
                   replay_start, samples_number, remaining, runnerVars, countVars, funVars>>

Next == LearnLoop \/ LearnOnPolicy \/ LearnGate \/ LearnOffPolicy \/ LearnReplayDone

Spec == InitLearn /\ [][Next]_vars



(***************************************************************************)
(* Buffer.decode as a function: applied to traces of frames numbered in    *)
(* time order, with every pattern of termination flags.                    *)
(***************************************************************************)
\* the variables of the Buffer client and of the learn loop, unused
IdleBufferAndLearn ==
    /\ BufferInit(0)
    /\ op = "init" /\ ret = NoRet /\ err = "none"
    /\ IdleRestOfLearn

\* environment i's trace: n_steps + n_stack distinct frames, none of them zero
TraceFrames(ns, nk) == [i \in Envs |-> [k \in 1 .. (ns + nk) |-> i * (ns + nk) + k]]

InitDecode ==
    /\ n_steps \in 1 .. MaxDecodeSteps
    /\ n_stack \in NStacks
    /\ \E flags \in [1 .. n_steps -> {0, 1}] :
           fin = [enc_obs |-> TraceFrames(n_steps, n_stack),
                  dones |-> [i \in Envs |-> flags]]
    /\ fout = [done |-> FALSE]
    /\ IdleBufferAndLearn

\* obs = self.decode(enc_obs, dones)
DecodeApply ==
    /\ ~fout.done
    /\ fout' = IF decode_ok(n_steps, n_stack)
               THEN [done |-> TRUE, raised |-> "none",
                     obs |-> decode(fin.enc_obs, fin.dones, n_steps, n_stack)]
               ELSE [done |-> TRUE, raised |-> "ValueError"]
    /\ UNCHANGED <<cfgVars, bufVars, callVars, history, learnVars, runnerVars, countVars, fin>>

NextDecode == DecodeApply

SpecDecode == InitDecode /\ [][NextDecode]_vars

\* the frame of time tau (0 is the observation before the first step of the
\* trace; the n_stack - 1 frames before it are the lookback)
FrameAt(i, tau) == fin.enc_obs[i][tau + n_stack]

\* an episode ended between the frame of time tau and the observation of time
\* t: a step j (from 0) with tau <= j < t has its termination flag set
BoundaryBetween(i, tau, t) ==
    \E j \in 0 .. (n_steps - 1) : tau <= j /\ j < t /\ fin.dones[i][j + 1] = 1

\* the trace has a termination flag at exactly one step
OneFlag(i) == Cardinality({j \in 1 .. n_steps : fin.dones[i][j] = 1}) = 1

\* C9 (as claimed): for n_stack in {1, 2, 4} and a trace with a termination
\* flag at one step, decode returns n_steps + 1 stacked observations in which
\* lag position l of the observation of time t is zero when an episode ended
\* between the frame of time t - l and time t, and is that frame otherwise.
C9_DecodeNoLeakage ==
    (fout.done /\ \A i \in Envs : OneFlag(i)) =>
        /\ fout.raised = "none"
        /\ \A i \in Envs :
            /\ Len(fout.obs[i]) = n_steps + 1
            /\ \A t \in 0 .. n_steps : \A l \in 0 .. (n_stack - 1) :
                   fout.obs[i][t + 1][n_stack - l] =
                       IF BoundaryBetween(i, t - l, t) THEN 0 ELSE FrameAt(i, t - l)


(***************************************************************************)
(* q_retrace (acer_simple.py) as a function.  The tensors hold floats; the *)
(* model computes over exact rationals <<numerator, denominator>> in       *)
(* lowest terms with a positive denominator, so equal values are equal     *)
(* tuples.  One environment column is computed: the columns of the [n_envs]*)
(* vectors never mix.                                                      *)
(***************************************************************************)
RECURSIVE GCD(_, _)
GCD(a, b) == IF b = 0 THEN a ELSE GCD(b, a % b)

Abs(a) == IF a < 0 THEN -a ELSE a

Rat(n, d) ==
    LET g == GCD(Abs(n), d)
    IN  IF n = 0 THEN <<0, 1>> ELSE <<n \div g, d \div g>>

\* common factors are cancelled before multiplying, to keep the integers small
RAdd(a, b) ==
    LET g == GCD(a[2], b[2])
    IN  Rat(a[1] * (b[2] \div g) + b[1] * (a[2] \div g), (a[2] \div g) * b[2])
RSub(a, b) ==
    LET g == GCD(a[2], b[2])
    IN  Rat(a[1] * (b[2] \div g) - b[1] * (a[2] \div g), (a[2] \div g) * b[2])
RMul(a, b) ==
    LET g1 == GCD(Abs(a[1]), b[2])
        g2 == GCD(Abs(b[1]), a[2])
    IN  Rat((a[1] \div g1) * (b[1] \div g2), (a[2] \div g2) * (b[2] \div g1))
RLeq(a, b) ==
    LET g == GCD(a[2], b[2])
    IN  a[1] * (b[2] \div g) <= b[1] * (a[2] \div g)
RMin(a, b) == IF RLeq(a, b) THEN a ELSE b
ROne == <<1, 1>>
RZero == <<0, 1>>

\* the truncation of line 44 left out
rho_bar_untruncated(rho) == rho

\* line 44: rho_bar = tf.minimum(1.0, rho_i)
rho_bar(rho) == RMin(ROne, rho)

\* the (1 - done) factor left out of line 54
retrace_target_no_mask(reward, done, qret, gamma) == RAdd(reward, RMul(gamma, qret))

\* the gamma factor left out of line 54
retrace_target_no_discount(reward, done, qret, gamma) ==
    RAdd(reward, RMul(qret, RSub(ROne, done)))

\* line 54: qret = reward_seq[i] + gamma * qret * (1.0 - done_seq[i])
retrace_target(reward, done, qret, gamma) ==
    RAdd(reward, RMul(RMul(gamma, qret), RSub(ROne, done)))

\* line 56: qret = (rho_bar[i] * (qret - q_is[i])) + value_sequence[i]
retrace_carry(rho, qret, q, v) == RAdd(RMul(rho_bar(rho), RSub(qret, q)), v)

\* lines 52-56: for i in range(n_steps - 1, -1, -1), here i from n_steps to 1
RECURSIVE retrace_loop(_, _, _, _)
retrace_loop(in, i, qret, qrets) ==
    IF i = 0 THEN qrets
    ELSE LET target == retrace_target(in.rewards[i], in.dones[i], qret, in.gamma)
         IN  retrace_loop(in, i - 1,
                          retrace_carry(in.rho_i[i], target, in.q_i[i], in.values[i]),
                          Append(qrets, target))

\* the list returned in the order it was built
not_reversed(sq) == sq

\* line 57: qrets[::-1]
reversed(sq) == [k \in 1 .. Len(sq) |-> sq[Len(sq) + 1 - k]]

\* q_retrace: qret starts as final_value = value_sequence[-1]
q_retrace(in) ==
    reversed(retrace_loop(in, in.n_steps, in.values[in.n_steps + 1], <<>>))

\* the inputs of one step: reward, termination flag, Q of the action taken
\* and value of the state (equal or not), importance weight (below and above
\* the truncation at 1)
Rewards == {RZero, <<1, 1>>, <<2, 1>>}
Dones == {RZero, ROne}
QValues == {<<<<1, 1>>, <<1, 1>>>>, <<RZero, <<2, 1>>>>, <<<<2, 1>>, <<1, 1>>>>}
Rhos == {<<1, 2>>, <<2, 1>>}
FinalValues == {RZero, <<3, 1>>}
Gammas == {RZero, <<9, 10>>, ROne}

InitRetrace ==
    /\ n_steps \in 1 .. MaxRetraceSteps
    /\ n_stack = 1
    /\ \E r \in [1 .. n_steps -> Rewards], d \in [1 .. n_steps -> Dones],
          qv \in [1 .. n_steps -> QValues], rho \in [1 .. n_steps -> Rhos],
          fv \in FinalValues, g \in Gammas :
           fin = [n_steps |-> n_steps, rewards |-> r, dones |-> d,
                  q_i |-> [i \in 1 .. n_steps |-> qv[i][1]],
                  values |-> [i \in 1 .. (n_steps + 1) |->
                                 IF i <= n_steps THEN qv[i][2] ELSE fv],
                  rho_i |-> rho, gamma |-> g]
    /\ fout = [done |-> FALSE]
    /\ IdleBufferAndLearn

\* qret = q_retrace(reward_ph, done_ph, q_i, value, rho_i, n_envs, n_steps, gamma)
RetraceApply ==
    /\ ~fout.done
    /\ fout' = [done |-> TRUE, qret |-> q_retrace(fin)]
    /\ UNCHANGED <<cfgVars, bufVars, callVars, history, learnVars, runnerVars, countVars, fin>>

NextRetrace == RetraceApply

SpecRetrace == InitRetrace /\ [][NextRetrace]_vars

\* C10: with gamma = 0 every target q_retrace returns is the reward of its
\* step, whatever the termination flags, Q values, state values, bootstrap
\* value and importance weights.
C10_GammaZeroTargetIsReward ==
    (fout.done /\ fin.gamma = RZero) =>
        /\ Len(fout.qret) = n_steps
        /\ \A t \in 1 .. n_steps : fout.qret[t] = fin.rewards[t]

\* gamma = 0 on a two-step trace that does not terminate, with a nonzero
\* bootstrap value and a nonzero carry out of the last step
C10_Witness_GammaZero ==
    /\ fout.done /\ fin.gamma = RZero /\ n_steps = 2
    /\ \A t \in 1 .. n_steps : fin.dones[t] = RZero
    /\ fin.values[n_steps + 1] # RZero
    /\ retrace_carry(fin.rho_i[2], fout.qret[2], fin.q_i[2], fin.values[2]) # RZero


\* gamma to the power k
RECURSIVE RPow(_, _)
RPow(g, k) == IF k = 0 THEN ROne ELSE RMul(g, RPow(g, k - 1))

\* sum over i in 0 .. m of gamma^i * r_{t+i} (steps numbered from 1)
RECURSIVE DiscountedRewards(_, _, _)
DiscountedRewards(in, t, m) ==
    IF m < 0 THEN RZero
    ELSE RAdd(DiscountedRewards(in, t, m - 1), RMul(RPow(in.gamma, m), in.rewards[t + m]))

\* the n-step bootstrapped return of step t (from 1): the discounted rewards of
\* steps t .. n plus gamma^(n - t + 1) times the bootstrap value V_n
NStepReturn(in, t) ==
    RAdd(DiscountedRewards(in, t, in.n_steps - t),
         RMul(RPow(in.gamma, in.n_steps - t + 1), in.values[in.n_steps + 1]))

\* the retrace correction vanishes: rho_i >= 1 and Q = V at every step, and no
\* step is terminal
RetraceOnPolicy(in) ==
    \A t \in 1 .. in.n_steps :
        /\ RLeq(ROne, in.rho_i[t])
        /\ in.q_i[t] = in.values[t]
        /\ in.dones[t] = RZero

\* C11: when the truncated importance weight is 1 and Q equals V at every step
\* and no step is terminal, the target of every step t is the n-step
\* bootstrapped return sum_i gamma^i r_{t+i} + gamma^(n-t) V_n.
C11_RetraceIsNStepReturn ==
    (fout.done /\ RetraceOnPolicy(fin)) =>
        \A t \in 1 .. n_steps : fout.qret[t] = NStepReturn(fin, t)

\* C11 witness: two steps with gamma = 0.9, an importance weight above 1,
\* different rewards and a nonzero bootstrap value
C11_Witness_DiscountedReturn ==
    /\ fout.done /\ RetraceOnPolicy(fin) /\ n_steps = 2
    /\ fin.gamma = <<9, 10>> /\ fin.rho_i[1] = <<2, 1>>
    /\ fin.rewards[1] = ROne /\ fin.rewards[2] = <<2, 1>>
    /\ fin.values[3] = <<3, 1>>
    /\ fout.qret[1] = <<523, 100>>


(***************************************************************************)
(* The trust-region projection of Model.__init__ (acer_simple.py lines     *)
(* 182-197) as a function of one sample: the policy f, the averaged        *)
(* (polyak) policy, the gradient g with respect to f, and delta.  Vectors   *)
(* over the actions hold exact rationals.                                  *)
(***************************************************************************)
RDiv(a, b) == RMul(a, IF b[1] < 0 THEN <<-b[2], -b[1]>> ELSE <<b[2], b[1]>>)
RNeg(a) == <<-a[1], a[2]>>
RAbs(a) == <<Abs(a[1]), a[2]>>
RMax(a, b) == IF RLeq(a, b) THEN b ELSE a

Acts == 0 .. 1

\* line 102: eps
eps == <<1, EpsInv>>

\* tf.reduce_sum(x * y, axis=-1) over the two actions
reduce_sum_prod(x, y) == RAdd(RMul(x[0], y[0]), RMul(x[1], y[1]))

\* line 186: kl_grad = - f_polyak / (distribution_f + eps)
kl_grad(f_polyak, distribution_f) ==
    [a \in Acts |-> RNeg(RDiv(f_polyak[a], RAdd(distribution_f[a], eps)))]

\* the product of the first action only, the sum over the actions left out
k_dot_g_first_action(k, g) == RMul(k[0], g[0])

\* line 187: k_dot_g = tf.reduce_sum(kl_grad * grad, axis=-1)
k_dot_g(k, g) == reduce_sum_prod(k, g)

\* lines 188-189: the denominator tf.reduce_sum(tf.square(kl_grad), axis=-1) + eps
adj_denominator(k) == RAdd(reduce_sum_prod(k, k), eps)

\* the tf.maximum(0.0, .) of line 188 left out
adj_unclamped(k, g, delta) == RDiv(RSub(k_dot_g(k, g), delta), adj_denominator(k))

\* lines 188-189: adj = tf.maximum(0.0, (k . g - delta) / (sum k^2 + eps))
adj(k, g, delta) ==
    RMax(RZero, RDiv(RSub(k_dot_g(k, g), delta), adj_denominator(k)))

\* the adjustment added instead of subtracted
projected_grad_added(k, g, delta) ==
    [a \in Acts |-> RAdd(g[a], RMul(adj(k, g, delta), k[a]))]

\* line 197: grad = grad - tf.reshape(adj, [n_envs * n_steps, 1]) * kl_grad
projected_grad(k, g, delta) ==
    [a \in Acts |-> RSub(g[a], RMul(adj(k, g, delta), k[a]))]

\* c * k
scaled(c, k) == [a \in Acts |-> RMul(c, k[a])]

\* policies over the two actions, the averaged policy (which may have
\* underflowed to zero), gradients and delta
Policies == {<<<<1, 2>>, <<1, 2>>>>, <<<<1, 4>>, <<3, 4>>>>}
PolyakPolicies == Policies \cup {<<RZero, RZero>>, <<<<3, 4>>, <<1, 4>>>>}
GradEntries == {<<-2, 1>>, RZero, <<1, 1>>}
Scales == {<<-1, 1>>, <<1, 2>>, <<2, 1>>, <<3, 1>>}
Deltas == {RZero, ROne}

vec(pair) == [a \in Acts |-> pair[a + 1]]

InitTrust ==
    /\ n_steps = 1 /\ n_stack = 1
    /\ \E f \in Policies, fp \in PolyakPolicies, d \in Deltas :
         LET k == kl_grad(vec(fp), vec(f))
         IN  \/ \E g \in [Acts -> GradEntries] :
                   fin = [distribution_f |-> vec(f), f_polyak |-> vec(fp),
                          grad |-> g, scale |-> RZero, delta |-> d]
             \/ \E c \in Scales :
                   fin = [distribution_f |-> vec(f), f_polyak |-> vec(fp),
                          grad |-> scaled(c, k), scale |-> c, delta |-> d]
    /\ fout = [done |-> FALSE]
    /\ IdleBufferAndLearn

\* lines 186-197 on one sample
TrustApply ==
    /\ ~fout.done
    /\ LET k == kl_grad(fin.f_polyak, fin.distribution_f)
       IN  fout' = [done |-> TRUE, kl_grad |-> k,
                    k_dot_g |-> k_dot_g(k, fin.grad),
                    adj |-> adj(k, fin.grad, fin.delta),
                    grad |-> projected_grad(k, fin.grad, fin.delta)]
    /\ UNCHANGED <<cfgVars, bufVars, callVars, history, learnVars, runnerVars, countVars, fin>>

NextTrust == TrustApply

SpecTrust == InitTrust /\ [][NextTrust]_vars

ZeroVec == [a \in Acts |-> RZero]

\* C12: when k . g <= delta the adjustment is 0 and the projected gradient is
\* g; when k is the zero vector the divisor is eps, not zero, and the
\* projected gradient is g.
C12_TrustRegionInactive ==
    fout.done =>
        /\ RLeq(fout.k_dot_g, fin.delta) => (fout.adj = RZero /\ fout.grad = fin.grad)
        /\ fout.kl_grad = ZeroVec =>
               (adj_denominator(fout.kl_grad) = eps /\ eps # RZero /\ fout.grad = fin.grad)

\* C12 witness: k is not zero and k . g is strictly below delta, with g not zero
C12_Witness_Inactive ==
    /\ fout.done /\ fout.kl_grad # ZeroVec /\ fin.grad # ZeroVec
    /\ fout.k_dot_g # fin.delta /\ RLeq(fout.k_dot_g, fin.delta)
    /\ fout.grad = fin.grad

\* the case of C13: the averaged policy is the current policy, g = c * k
\* and k . g > delta
ProportionalAndActive ==
    /\ fout.done /\ fin.f_polyak = fin.distribution_f
    /\ fin.scale # RZero
    /\ ~RLeq(fout.k_dot_g, fin.delta)

\* C13 (as claimed): in that case the projected gradient is driven to zero:
\* every entry of g' is zero up to the eps of the divisor, |g'_a| * sum k^2 <=
\* eps * |g_a| (what g - ((k . g) / (sum k^2 + eps)) * k leaves of g = c * k).
C13_ProjectedGradientZero ==
    ProportionalAndActive =>
        \A a \in Acts :
            RLeq(RMul(RAbs(fout.grad[a]), reduce_sum_prod(fout.kl_grad, fout.kl_grad)),
                 RMul(eps, RAbs(fin.grad[a])))

\* C13 (amended): in that case the projected gradient stays proportional to k,
\* g' = ((c * eps + delta) / (sum k^2 + eps)) * k, and its component along k
\* is reduced from k . g to (eps * (k . g) + delta * sum k^2) / (sum k^2 + eps),
\* which lies above delta and below k . g.
C13_ProjectedOntoBoundary ==
    ProportionalAndActive =>
        LET k == fout.kl_grad
            s == reduce_sum_prod(k, k)
            along == reduce_sum_prod(k, fout.grad)
        IN  /\ fout.grad = scaled(RDiv(RAdd(RMul(fin.scale, eps), fin.delta),
                                       adj_denominator(k)), k)
            /\ along = RDiv(RAdd(RMul(eps, fout.k_dot_g), RMul(fin.delta, s)),
                            adj_denominator(k))
            /\ RLeq(fin.delta, along) /\ along # fin.delta
            /\ RLeq(along, fout.k_dot_g) /\ along # fout.k_dot_g

\* C13 witness: delta = 1 and g = 2 * k for the uniform policy
C13_Witness_Active ==
    /\ ProportionalAndActive /\ fin.delta = ROne /\ fin.scale = <<2, 1>>
    /\ fin.distribution_f = vec(<<<<1, 2>>, <<1, 2>>>>)
    /\ fout.adj # RZero

\* C26: for a sample with k not the zero vector, the component of the
\* projected gradient along k is min(k . g, delta) once the eps of the divisor
\* is taken as 0: sum_a k_a * g'_a is exactly
\* min(k . g, delta) + (eps / (sum k^2 + eps)) * max(0, k . g - delta), where
\* the factor eps / (sum k^2 + eps) is positive and below 1, so the component
\* is never raised and exceeds delta by the eps term only.
C26_TrustRegionBound ==
    (fout.done /\ fout.kl_grad # ZeroVec) =>
        LET k == fout.kl_grad
            dot == reduce_sum_prod(k, fin.grad)
            along == reduce_sum_prod(k, fout.grad)
            excess == RMax(RZero, RSub(dot, fin.delta))
            eps_factor == RDiv(eps, adj_denominator(k))
        IN  /\ along = RAdd(RMin(dot, fin.delta), RMul(eps_factor, excess))
            /\ RLeq(RZero, eps_factor) /\ RLeq(eps_factor, ROne) /\ eps_factor # ROne
            /\ RLeq(RZero, excess)
            /\ RLeq(dot, fin.delta) => along = dot

\* C26 witness: the constraint is active with delta = 1 for a gradient that is
\* not a multiple of k
C26_Witness_ActiveNotProportional ==
    /\ fout.done /\ fout.kl_grad # ZeroVec /\ fin.scale = RZero
    /\ fin.delta = ROne /\ ~RLeq(fout.k_dot_g, fin.delta)
    /\ fin.grad[0] # RZero /\ fin.grad[1] = RZero
    /\ fout.grad # fin.grad


(***************************************************************************)
(* Model.train (acer_simple.py lines 112-122, 213-218, 234-245): one       *)
(* trainable parameter and its polyak average.  sess.run(run_ops) fetches  *)
(* _train = tf.group(ema_apply_op), a no-op built under                    *)
(* tf.control_dependencies([_opt_op]): the no-op waits for _opt_op and for *)
(* ema_apply_op.  ema_apply_op itself was built at line 114, outside that  *)
(* block, so it carries no dependency on _opt_op: the session may run the  *)
(* two in either order.                                                    *)
(***************************************************************************)
\* alpha of learn (the decay of tf.train.ExponentialMovingAverage)
Alphas == {<<1, 2>>, <<9, 10>>}
\* the change RMSProp makes to the parameter in one apply_gradients
Updates == {<<-1, 1>>, <<1, 1>>, <<2, 1>>}

\* line 258: the parameter is initialised, and its average starts as its value
InitTrain ==
    /\ n_steps = 1 /\ n_stack = 1
    /\ \E al \in Alphas : fin = [alpha |-> al]
    /\ fout = [phase |-> "idle", params |-> RZero, ema |-> RZero,
               update |-> RZero, opt_done |-> FALSE, ema_done |-> FALSE,
               calls |-> 0, n_opt |-> 0, n_ema |-> 0,
               before |-> RZero, averaged |-> RZero]
    /\ IdleBufferAndLearn

\* train, lines 234-245: sess.run(run_ops, td_map) starts
TrainCall ==
    /\ fout.phase = "idle" /\ fout.calls < MaxTrainCalls
    /\ \E u \in Updates :
           fout' = [fout EXCEPT !.phase = "running", !.update = u,
                                !.opt_done = FALSE, !.ema_done = FALSE,
                                !.calls = @ + 1, !.before = fout.params]
    /\ UNCHANGED <<cfgVars, bufVars, callVars, history, learnVars, runnerVars, countVars, fin>>

\* line 214: _opt_op = trainer.apply_gradients(grads)
OptStep ==
    /\ fout.phase = "running" /\ ~fout.opt_done
    /\ fout' = [fout EXCEPT !.params = RSub(@, fout.update),
                            !.opt_done = TRUE, !.n_opt = @ + 1]
    /\ UNCHANGED <<cfgVars, bufVars, callVars, history, learnVars, runnerVars, countVars, fin>>

\* line 114: ema_apply_op = ema.apply(params): average -= (1 - alpha) * (average - param)
EmaApply ==
    /\ fout.phase = "running" /\ ~fout.ema_done
    /\ fout' = [fout EXCEPT !.ema = RSub(@, RMul(RSub(ROne, fin.alpha), RSub(@, fout.params))),
                            !.ema_done = TRUE, !.n_ema = @ + 1,
                            !.averaged = fout.params]
    /\ UNCHANGED <<cfgVars, bufVars, callVars, history, learnVars, runnerVars, countVars, fin>>

\* lines 217-218 and 245: _train is done when _opt_op and ema_apply_op both are
TrainReturn ==
    /\ fout.phase = "running" /\ fout.opt_done /\ fout.ema_done
    /\ fout' = [fout EXCEPT !.phase = "idle"]
    /\ UNCHANGED <<cfgVars, bufVars, callVars, history, learnVars, runnerVars, countVars, fin>>

NextTrain == TrainCall \/ OptStep \/ EmaApply \/ TrainReturn

SpecTrain == InitTrain /\ [][NextTrain]_vars

\* C14 (as claimed): every call of train makes exactly one optimizer step and
\* then exactly one update of the average; the average is never updated before
\* the optimizer step of its call, so it averages in the parameter after the
\* step; and the average changes at no other time.
C14_OptimizerStepThenEma ==
    /\ [](fout.phase = "idle" => (fout.n_opt = fout.calls /\ fout.n_ema = fout.calls))
    /\ [](fout.ema_done => fout.opt_done)
    /\ []((fout.phase = "idle" /\ fout.calls > 0) =>
              fout.averaged = RSub(fout.before, fout.update))
    /\ [][fout'.ema # fout.ema => (fout.phase = "running" /\ fout'.n_ema = fout.n_ema + 1)]_vars


(***************************************************************************)
(* learn of gail/trpo_mpi.py: the policy update of one iteration (lines    *)
(* 301-438) with g_step = 1, over one flat parameter theta.  The sampled   *)
(* segment, the gradient, the conjugate-gradient step and the losses at a  *)
(* candidate theta are results of the session: the gradient is all-close   *)
(* to zero or not, fullstep is a nonzero step, and each loss is a finite   *)
(* number or not finite.                                                   *)
(***************************************************************************)
\* line 364: for _ in range(10)
LineSearchTries == 10

\* a loss: a finite rational or nan/inf
Finite(v) == [finite |-> TRUE, val |-> v]
NonFinite == [finite |-> FALSE, val |-> RZero]
Undefined == [defined |-> FALSE, surr |-> NonFinite, kl_loss |-> NonFinite]

MaxKls == {<<1, 100>>}
FullSteps == {<<-1, 1>>, <<1, 1>>, <<3, 1>>}
\* surr relative to surrbefore = 0, kl_loss relative to max_kl
SurrLosses == {NonFinite, Finite(<<-1, 1>>), Finite(RZero), Finite(ROne)}
KlLosses(max_kl) == {NonFinite, Finite(RMul(<<3, 2>>, max_kl)), Finite(RMul(<<2, 1>>, max_kl))}

\* lines 262-288: the parameters are initialised and the counters are zero;
\* mean_losses is not bound yet
InitTrpo ==
    /\ n_steps = 1 /\ n_stack = 1
    /\ \E mi \in 1 .. MaxIters, mk \in MaxKls : fin = [max_iters |-> mi, max_kl |-> mk]
    /\ fout = [pc |-> "top", iters_so_far |-> 0, theta |-> RZero,
               thstart |-> RZero, thbefore |-> RZero, fullstep |-> RZero,
               stepsize |-> ROne, tries |-> 0, surrbefore |-> RZero,
               mean_losses |-> Undefined, zero_grad |-> FALSE, searched |-> FALSE,
               accepted |-> FALSE, vf_updates |-> 0, raised |-> "none"]
    /\ IdleBufferAndLearn

TrpoFrame == UNCHANGED <<cfgVars, bufVars, callVars, history, learnVars, runnerVars, countVars, fin>>

\* lines 301-308: while True: ... elif max_iters and iters_so_far >= max_iters: break
TrpoBreak ==
    /\ fout.pc = "top" /\ fout.iters_so_far >= fin.max_iters
    /\ fout' = [fout EXCEPT !.pc = "done"]
    /\ TrpoFrame

\* lines 323-362: sample, compute the gradient; np.allclose(grad, 0) skips the
\* policy step, else fullstep is computed, thbefore = get_flat() and the line
\* search starts with stepsize = 1.0
TrpoGradient ==
    /\ fout.pc = "top" /\ fout.iters_so_far < fin.max_iters
    /\ \/ fout' = [fout EXCEPT !.pc = "vf", !.zero_grad = TRUE, !.searched = FALSE,
                               !.accepted = FALSE, !.thstart = fout.theta]
       \/ \E fs \in FullSteps :
              fout' = [fout EXCEPT !.pc = "search", !.zero_grad = FALSE, !.searched = TRUE,
                                   !.accepted = FALSE, !.thstart = fout.theta,
                                   !.thbefore = fout.theta, !.fullstep = fs,
                                   !.stepsize = ROne, !.tries = 0, !.surrbefore = RZero]
    /\ TrpoFrame

\* the KL test left out of the line search
step_rejected_ignoring_kl(surr, kl_loss, surrbefore, max_kl) ==
    \/ ~(surr.finite /\ kl_loss.finite)
    \/ ~RLeq(RZero, RSub(surr.val, surrbefore))

\* lines 367-376: improve = surr - surrbefore; the step is not accepted when
\* the losses are not all finite, or kl_loss > max_kl * 1.5, or improve < 0
step_rejected(surr, kl_loss, surrbefore, max_kl) ==
    \/ ~(surr.finite /\ kl_loss.finite)
    \/ ~RLeq(kl_loss.val, RMul(max_kl, <<3, 2>>))
    \/ ~RLeq(RZero, RSub(surr.val, surrbefore))

\* lines 364-381: one iteration of the for loop: thnew = thbefore + fullstep *
\* stepsize is set, the losses are computed there; an accepted step breaks, a
\* rejected one halves stepsize, and the tenth rejection runs the else branch
\* set_from_flat(thbefore)
TrpoTry ==
    /\ fout.pc = "search"
    /\ \E surr \in SurrLosses, kl_loss \in KlLosses(fin.max_kl) :
         LET thnew == RAdd(fout.thbefore, RMul(fout.fullstep, fout.stepsize))
             losses == [defined |-> TRUE, surr |-> surr, kl_loss |-> kl_loss]
         IN  IF ~step_rejected(surr, kl_loss, fout.surrbefore, fin.max_kl)
             THEN fout' = [fout EXCEPT !.theta = thnew, !.mean_losses = losses,
                                       !.accepted = TRUE, !.pc = "vf"]
             ELSE IF fout.tries + 1 < LineSearchTries
             THEN fout' = [fout EXCEPT !.theta = thnew, !.mean_losses = losses,
                                       !.stepsize = RMul(@, <<1, 2>>), !.tries = @ + 1]
             ELSE fout' = [fout EXCEPT !.theta = fout.thbefore, !.mean_losses = losses,
                                       !.stepsize = RMul(@, <<1, 2>>), !.tries = @ + 1,
                                       !.pc = "vf"]
    /\ TrpoFrame

\* lines 386-437: the value function is fitted, then line 395 reads
\* mean_losses (an unbound local raises UnboundLocalError), the statistics
\* are logged and iters_so_far += 1
TrpoFinish ==
    /\ fout.pc = "vf"
    /\ IF fout.mean_losses.defined
       THEN fout' = [fout EXCEPT !.pc = "top", !.vf_updates = @ + 1, !.iters_so_far = @ + 1]
       ELSE fout' = [fout EXCEPT !.pc = "crashed", !.vf_updates = @ + 1,
                                 !.raised = "UnboundLocalError"]
    /\ TrpoFrame

NextTrpo == TrpoBreak \/ TrpoGradient \/ TrpoTry \/ TrpoFinish

SpecTrpo == InitTrpo /\ [][NextTrpo]_vars

\* C19 (as claimed): an iteration whose gradient is all-close to zero, the
\* first one included, leaves the parameters unchanged, raises nothing and
\* runs to completion.
C19_ZeroGradientNotFatal ==
    fout.zero_grad =>
        /\ fout.theta = fout.thstart
        /\ fout.raised = "none" /\ fout.pc # "crashed"

\* the step of stepsize 1 / 2^j
RECURSIVE Halved(_)
Halved(j) == IF j = 0 THEN ROne ELSE RMul(<<1, 2>>, Halved(j - 1))

\* the acceptance test as the claim words it
Acceptable(l) ==
    /\ l.surr.finite /\ l.kl_loss.finite
    /\ RLeq(l.kl_loss.val, RMul(<<3, 2>>, fin.max_kl))
    /\ RLeq(fout.surrbefore, l.surr.val)

\* C20: the line search tries the step sizes 1, 1/2, ..., 1/512 in order, at
\* most 10 of them, stops at the first whose losses are all finite, whose KL
\* is at most 1.5 * max_kl and whose improvement is not negative, and leaves
\* theta = thbefore + fullstep * stepsize for it; when all 10 are rejected
\* theta is thbefore.
C20_LineSearch ==
    /\ [](fout.pc = "search" =>
              (fout.tries < LineSearchTries /\ fout.stepsize = Halved(fout.tries)))
    /\ [][fout.pc = "search" =>
              LET l == fout'.mean_losses
              IN  /\ l.defined
                  /\ Acceptable(l) =>
                        /\ fout'.pc = "vf" /\ fout'.accepted
                        /\ fout'.theta = RAdd(fout.thbefore,
                                              RMul(fout.fullstep, Halved(fout.tries)))
                  /\ (~Acceptable(l) /\ fout.tries < LineSearchTries - 1) =>
                        (fout'.pc = "search" /\ fout'.tries = fout.tries + 1)
                  /\ (~Acceptable(l) /\ fout.tries = LineSearchTries - 1) =>
                        (fout'.pc = "vf" /\ ~fout'.accepted /\ fout'.theta = fout.thbefore)
       ]_vars
    /\ []((fout.pc = "vf" /\ fout.searched) =>
              IF fout.accepted
              THEN fout.theta = RAdd(fout.thbefore, RMul(fout.fullstep, Halved(fout.tries)))
              ELSE fout.tries = LineSearchTries /\ fout.theta = fout.thbefore)

\* C20 witness: all 10 step sizes were rejected, the last for a non-finite
\* loss, and theta is back at thbefore
C20_Witness_Reverted ==
    /\ fout.pc = "vf" /\ fout.searched /\ ~fout.accepted
    /\ fout.tries = LineSearchTries /\ fout.stepsize = <<1, 1024>>
    /\ ~fout.mean_losses.surr.finite
    /\ fout.theta = fout.thbefore


(***************************************************************************)
(* learn of deepq/simple.py, lines 192-283: the training loop.  What the   *)
(* callback returns depends on the locals it is given; here it is any      *)
(* boolean at each call.                                                   *)
(***************************************************************************)
FunFrame == UNCHANGED <<cfgVars, bufVars, callVars, history, learnVars, runnerVars, countVars, fin>>

\* lines 188-193: update_target once, obs = env.reset()
InitDeepq ==
    /\ n_steps = 1 /\ n_stack = 1
    /\ \E mt \in 0 .. MaxTimesteps, ls \in 0 .. MaxLearningStarts,
          tf \in 1 .. MaxFreq, uf \in 1 .. MaxFreq, cb \in BOOLEAN :
           fin = [max_timesteps |-> mt, learning_starts |-> ls, train_freq |-> tf,
                  target_network_update_freq |-> uf, has_callback |-> cb]
    /\ fout = [pc |-> "for", step |-> 0, callbacks |-> 0, stop_requested |-> FALSE,
               acts |-> 0, env_steps |-> 0, adds |-> 0, trains |-> 0,
               target_updates |-> 1, returned |-> "nothing"]
    /\ IdleBufferAndLearn

\* a callback whose result is not looked at
callback_ignored(result) == FALSE

\* lines 206-208: if callback(locals(), globals()): break
callback_breaks(result) == result

\* lines 205-208: for step in range(max_timesteps): the callback, when there
\* is one, is called first and may break the loop
DeepqLoop ==
    /\ fout.pc = "for"
    /\ IF fout.step >= fin.max_timesteps
       THEN fout' = [fout EXCEPT !.pc = "end"]
       ELSE IF ~fin.has_callback
       THEN fout' = [fout EXCEPT !.pc = "body"]
       ELSE \E result \in BOOLEAN :
                fout' = [fout EXCEPT !.callbacks = @ + 1,
                                     !.stop_requested = result,
                                     !.pc = IF callback_breaks(result) THEN "end" ELSE "body"]
    /\ FunFrame

\* lines 209-254: act, env.step, replay_buffer.add, then train and
\* update_target when step > learning_starts and step is a multiple of the
\* frequency; the loop variable moves to the next value of range
DeepqStep ==
    /\ fout.pc = "body"
    /\ fout' = [fout EXCEPT
                  !.acts = @ + 1, !.env_steps = @ + 1, !.adds = @ + 1,
                  !.trains = IF fout.step > fin.learning_starts
                                /\ fout.step % fin.train_freq = 0 THEN @ + 1 ELSE @,
                  !.target_updates = IF fout.step > fin.learning_starts
                                        /\ fout.step % fin.target_network_update_freq = 0
                                     THEN @ + 1 ELSE @,
                  !.step = @ + 1, !.pc = "for"]
    /\ FunFrame

\* lines 278-283: return act
DeepqReturn ==
    /\ fout.pc = "end"
    /\ fout' = [fout EXCEPT !.pc = "returned", !.returned = "act"]
    /\ FunFrame

NextDeepq == DeepqLoop \/ DeepqStep \/ DeepqReturn

SpecDeepq == InitDeepq /\ [][NextDeepq]_vars

\* C21: the callback is called once at the start of every step, before the
\* action of the step is chosen; once it has returned true there is no further
\* environment step, replay-buffer add, training step or target-network
\* update, and learn returns the act wrapper.
C21_CallbackStopsTraining ==
    /\ [](fin.has_callback =>
              /\ fout.pc = "body" => (fout.callbacks = fout.step + 1 /\ fout.acts = fout.step)
              /\ (fout.pc = "for" /\ ~fout.stop_requested) => fout.callbacks = fout.step)
    /\ [](fout.env_steps = fout.step /\ fout.adds = fout.step /\ fout.acts = fout.step)
    /\ [][fout.stop_requested =>
              /\ fout'.stop_requested
              /\ fout'.env_steps = fout.env_steps /\ fout'.adds = fout.adds
              /\ fout'.trains = fout.trains /\ fout'.acts = fout.acts
              /\ fout'.target_updates = fout.target_updates
              /\ fout'.callbacks = fout.callbacks
              /\ fout'.returned = "act"]_vars
    /\ [](fout.pc = "returned" => fout.returned = "act")

\* C21 witness: the callback stopped the training at its third call, after a
\* training step, with steps left, and learn has returned
C21_Witness_StoppedEarly ==
    /\ fout.pc = "returned" /\ fout.stop_requested
    /\ fout.callbacks = 3 /\ fout.step = 2 /\ fout.trains >= 1
    /\ fout.step < fin.max_timesteps


(***************************************************************************)
(* IdentityEnv (common/identity_env.py).  action_space.sample() is any     *)
(* action of Discrete(dim).                                                *)
(***************************************************************************)
\* __init__, lines 13-15: the fields are set and reset() is called
InitIdentity ==
    /\ n_steps = 1 /\ n_stack = 1
    /\ \E dim \in 1 .. MaxDim, el \in 1 .. MaxIdEpLength : fin = [dim |-> dim, ep_length |-> el]
    /\ \E st \in 0 .. (MaxDim - 1) :
           /\ st < fin.dim
           /\ fout = [state |-> st, op |-> "reset", since_reset |-> 0,
                      action |-> 0, reward |-> 0, done |-> FALSE]
    /\ IdleBufferAndLearn

\* _get_reward, line 31
get_reward(state, action) == IF state = action THEN 1 ELSE 0

\* reset, lines 17-20
IdentityReset ==
    /\ \E st \in 0 .. (fin.dim - 1) :
           fout' = [fout EXCEPT !.state = st, !.op = "reset", !.since_reset = 0]
    /\ FunFrame

\* step, lines 22-25: return self.state, reward, False, {}
IdentityStep ==
    /\ fout.since_reset < MaxIdSteps
    /\ \E action \in 0 .. (fin.dim - 1), st \in 0 .. (fin.dim - 1) :
           fout' = [state |-> st, op |-> "step", since_reset |-> fout.since_reset + 1,
                    action |-> action, reward |-> get_reward(fout.state, action), done |-> FALSE]
    /\ FunFrame

NextIdentity == IdentityReset \/ IdentityStep

SpecIdentity == InitIdentity /\ [][NextIdentity]_vars

\* C22 (as claimed): counting from reset, step reports done = True on the
\* ep_length-th step of an episode and done = False on the earlier ones.
C22_EpisodeLength ==
    (fout.op = "step" /\ fout.since_reset <= fin.ep_length) =>
        (fout.done <=> (fout.since_reset = fin.ep_length))


\* the recursion as the claim words it, steps numbered 1 .. n: the carry that
\* enters step t (the bootstrap value V_n for t = n) and the target of step t
RECURSIVE CarryInto(_, _)
TargetOf(in, t) ==
    RAdd(in.rewards[t], RMul(RMul(in.gamma, RSub(ROne, in.dones[t])), CarryInto(in, t)))
CarryInto(in, t) ==
    IF t = in.n_steps THEN in.values[in.n_steps + 1]
    ELSE RAdd(in.values[t + 1],
              RMul(RMin(ROne, in.rho_i[t + 1]), RSub(TargetOf(in, t + 1), in.q_i[t + 1])))

\* C23: entry t of the result of q_retrace is target_t of the backward
\* recursion target_t = reward_t + gamma * (1 - done_t) * carry, carry = V_t +
\* min(1, rho_t) * (target_t - Q_t), started from carry = V_n at the last step:
\* the targets come back in forward time order.
C23_BackwardRecursion ==
    fout.done =>
        /\ Len(fout.qret) = n_steps
        /\ \A t \in 1 .. n_steps : fout.qret[t] = TargetOf(fin, t)

\* C23 witness: two steps, no termination, gamma = 0.9, different rewards and
\* different targets
C23_Witness_TwoSteps ==
    /\ fout.done /\ n_steps = 2 /\ fin.gamma = <<9, 10>>
    /\ fin.dones[1] = RZero /\ fin.dones[2] = RZero
    /\ fin.rewards[1] # fin.rewards[2]
    /\ fout.qret[1] # fout.qret[2]
    /\ fin.rho_i[2] = <<1, 2>> /\ fin.q_i[2] # fin.values[2]

\* C27: the target of a step with done = 1 is the reward of the step, whatever
\* gamma, the bootstrap value and the rewards, values and importance weights of
\* the later steps.
C27_NoBootstrapAcrossBoundary ==
    fout.done =>
        \A t \in 1 .. n_steps : fin.dones[t] = ROne => fout.qret[t] = fin.rewards[t]

\* C27 witness: the first of two steps is terminal, gamma is 1 and the carry
\* out of the second step is not zero
C27_Witness_TerminalStep ==
    /\ fout.done /\ n_steps = 2 /\ fin.gamma = ROne
    /\ fin.dones[1] = ROne /\ fin.dones[2] = RZero
    /\ CarryInto(fin, 1) # RZero
    /\ fout.qret[1] = fin.rewards[1] /\ fout.qret[2] # fin.rewards[2]

(***************************************************************************)
(* traj_segment_generator (gail/trpo_mpi.py lines 20-111).  The generator's*)
(* locals are kept in fout, its arguments in fin.  The environment is a    *)
(* collaborator: its observations are numbered by the env.step calls made  *)
(* before them, its rewards and termination flags are free, and env_log    *)
(* keeps what each env.step returned.  yielded_lens and yielded_rets are   *)
(* the ep_lens and ep_rets of every segment handed to the consumer so far. *)
(***************************************************************************)
\* policy.act(stochastic, observation): the action and the value prediction
policy_act(observation) == [action |-> observation % 2, vpred |-> observation + 1]

\* reward_giver.get_reward(observation, action), line 92
reward_giver_get_reward(observation, action) == (observation + action) % 2

\* an index that stops at the end of the arrays rather than wrapping
traj_idx_no_wrap(step, horizon) == Min(step, horizon - 1)

\* line 84: idx = step % horizon
traj_idx(step, horizon) == step % horizon

\* line 74: the condition of the yield
yield_due(step, horizon) == step > 0 /\ step % horizon = 0

NoSegment == [kind |-> "none"]

\* lines 46-66
InitTraj ==
    /\ n_steps = 1 /\ n_stack = 1
    /\ \E horizon \in 1 .. MaxHorizon, gail \in BOOLEAN :
           fin = [horizon |-> horizon, gail |-> gail]
    /\ \E action \in 0 .. 1 :
           fout = [pc |-> "loop", step |-> 0, action |-> action, prevac |-> action,
                   vpred |-> 0, done |-> 1, observation |-> 0,
                   cur_ep_ret |-> 0, cur_ep_len |-> 0, cur_ep_true_ret |-> 0,
                   ep_true_rets |-> <<>>, ep_rets |-> <<>>, ep_lens |-> <<>>,
                   observations |-> [j \in 1 .. fin.horizon |-> 0],
                   true_rewards |-> [j \in 1 .. fin.horizon |-> 0],
                   rewards |-> [j \in 1 .. fin.horizon |-> 0],
                   vpreds |-> [j \in 1 .. fin.horizon |-> 0],
                   dones |-> [j \in 1 .. fin.horizon |-> 0],
                   actions |-> [j \in 1 .. fin.horizon |-> action],
                   prev_actions |-> [j \in 1 .. fin.horizon |-> action],
                   env_log |-> <<>>, seg |-> NoSegment,
                   yielded_lens |-> <<>>, yielded_rets |-> <<>>]
    /\ IdleBufferAndLearn

\* lines 69-77: the top of the loop, up to the yield when one is due
TrajAct ==
    /\ fout.pc = "loop"
    /\ LET act == policy_act(fout.observation)
       IN  IF yield_due(fout.step, fin.horizon)
           THEN fout' = [fout EXCEPT
                    !.prevac = fout.action, !.action = act.action, !.vpred = act.vpred,
                    !.seg = [kind |-> "segment", ob |-> fout.observations,
                             rew |-> fout.rewards, vpred |-> fout.vpreds,
                             new |-> fout.dones, ac |-> fout.actions,
                             prevac |-> fout.prev_actions,
                             nextvpred |-> act.vpred * (1 - fout.done),
                             ep_rets |-> fout.ep_rets, ep_lens |-> fout.ep_lens,
                             ep_true_rets |-> fout.ep_true_rets],
                    !.yielded_lens = fout.yielded_lens \o fout.ep_lens,
                    !.yielded_rets = fout.yielded_rets \o fout.ep_rets,
                    !.pc = "yield"]
           ELSE fout' = [fout EXCEPT
                    !.prevac = fout.action, !.action = act.action, !.vpred = act.vpred,
                    !.pc = "body"]
    /\ FunFrame

\* lines 78-83: the generator is resumed after a yield
TrajResume ==
    /\ fout.pc = "yield"
    /\ fout' = [fout EXCEPT !.vpred = policy_act(fout.observation).vpred,
                            !.ep_rets = <<>>, !.ep_true_rets = <<>>, !.ep_lens = <<>>,
                            !.pc = "body"]
    /\ FunFrame

\* lines 84-111: the transition is stored at idx, the environment is stepped
\* and the episode counters updated
TrajBody ==
    /\ fout.pc = "body"
    /\ fout.step < MaxTrajSteps
    /\ \E env_reward \in 0 .. 1, env_done \in 0 .. 1 :
         LET idx == traj_idx(fout.step, fin.horizon) + 1
             reward == IF fin.gail
                       THEN reward_giver_get_reward(fout.observation, fout.action)
                       ELSE env_reward
             true_reward == env_reward
             ep_ret == fout.cur_ep_ret + reward
             ep_true_ret == fout.cur_ep_true_ret + true_reward
             ep_len == fout.cur_ep_len + 1
         IN  fout' = [fout EXCEPT
                 !.observations[idx] = fout.observation,
                 !.vpreds[idx] = fout.vpred,
                 !.dones[idx] = fout.done,
                 !.actions[idx] = fout.action,
                 !.prev_actions[idx] = fout.prevac,
                 !.rewards[idx] = reward,
                 !.true_rewards[idx] = true_reward,
                 !.observation = fout.step + 1,
                 !.done = env_done,
                 !.env_log = Append(fout.env_log, [reward |-> reward, done |-> env_done]),
                 !.cur_ep_ret = IF env_done = 1 THEN 0 ELSE ep_ret,
                 !.cur_ep_true_ret = IF env_done = 1 THEN 0 ELSE ep_true_ret,
                 !.cur_ep_len = IF env_done = 1 THEN 0 ELSE ep_len,
                 !.ep_rets = IF env_done = 1 THEN Append(fout.ep_rets, ep_ret) ELSE fout.ep_rets,
                 !.ep_true_rets = IF env_done = 1 THEN Append(fout.ep_true_rets, ep_true_ret)
                                  ELSE fout.ep_true_rets,
                 !.ep_lens = IF env_done = 1 THEN Append(fout.ep_lens, ep_len) ELSE fout.ep_lens,
                 !.step = fout.step + 1,
                 !.pc = "loop"]
    /\ FunFrame

NextTraj == TrajAct \/ TrajResume \/ TrajBody

SpecTraj == InitTraj /\ [][NextTraj]_vars

\* the sum of the first n entries of a sequence
RECURSIVE SumFirst(_, _)
SumFirst(seq, n) == IF n = 0 THEN 0 ELSE SumFirst(seq, n - 1) + seq[n]

\* the sum of the rewards of the first n env.step calls
RECURSIVE RewardsUpTo(_, _)
RewardsUpTo(log, n) == IF n = 0 THEN 0 ELSE RewardsUpTo(log, n - 1) + log[n].reward

\* the numbers of env.step calls made when an episode ended, among calls
\* lo + 1 .. hi
CompletedIn(log, lo, hi) == {s \in (lo + 1) .. hi : log[s].done = 1}

C3_GetNeverOnEmptyBuffer ==
    /\ err # EmptyBufferError
    /\ (pc = "off_policy" /\ remaining > 0) =>
           /\ can_sample /\ Len(history) >= 1
           /\ n_on = 1 /\ n_put = 1
           /\ replay_ratio > 0 /\ has_atleast(replay_start)
    /\ op = "get" => (Len(history) >= 1 /\ num_in_buffer >= 1)
    /\ (op = "get" /\ pc \in {"off_policy", "crashed"}) => (n_on = 1 /\ n_put = 1)

\* C3 witness: with replay_start = 0 an off-policy update was made in the first cycle
C3_Witness_ReplayInFirstCycle ==
    op = "get" /\ err = "none" /\ replay_start = 0 /\ cycle = 1

\* C4: every cycle makes exactly one on-policy update first (runner.run, put
\* when replay is enabled, one train); off-policy updates follow it, only when
\* replay_ratio > 0 and has_atleast(replay_start) holds then, and exactly as
\* many as the cycle's one Poisson draw; with replay disabled there is no
\* buffer and a cycle makes exactly one update.
C4_TwoPhaseCycle ==
    /\ n_on <= 1 /\ drawn <= 1
    /\ pc \in {"gate", "off_policy"} => (n_on = 1 /\ n_off <= samples_number)
    /\ n_off > 0 => (n_on = 1 /\ drawn = 1)
    /\ drawn = 1 => (replay_ratio > 0 /\ has_atleast(replay_start))
    /\ (drawn = 1 /\ pc # "crashed") => n_off + remaining = samples_number
    /\ (pc = "loop" /\ cycle >= 1) =>
           /\ n_on = 1
           /\ n_put = (IF replay_ratio > 0 THEN 1 ELSE 0)
           /\ drawn = (IF replay_ratio > 0 /\ has_atleast(replay_start) THEN 1 ELSE 0)
           /\ n_off = (IF drawn = 1 THEN samples_number ELSE 0)
    /\ replay_ratio <= 0 =>
           (enc_obs = None /\ num_in_buffer = 0 /\ n_put = 0 /\ n_off = 0 /\ drawn = 0)

\* C4 witness: a second cycle ended after two off-policy updates
C4_Witness_CycleWithReplay == pc = "loop" /\ cycle = 2 /\ n_on = 1 /\ n_off = 2

\* C5: an off-policy update takes no environment step and puts nothing: the
\* environment steps, the Runner's stack and flags, and the buffer's storage,
\* next_idx and num_in_buffer are unchanged by it; so every cycle takes exactly
\* n_envs * n_steps environment steps, whatever the number of replay updates.
C5_OffPolicyFrame ==
    /\ []((pc \in {"loop", "gate", "off_policy", "closed"}) =>
              env_steps * NEnv = cycle * n_batch)
    /\ [][(pc = "off_policy" /\ remaining > 0) =>
              UNCHANGED <<env_steps, obs, runner_dones, bufVars, history>>]_vars

\* C5 witness: the second off-policy update of a cycle has been made
C5_Witness_SecondReplayUpdate ==
    pc = "off_policy" /\ op = "get" /\ err = "none" /\ n_off = 2 /\ samples_number = 2


\* C15 (as claimed): a configuration whose buffer has no slot (buffer_size <
\* n_steps with replay enabled) is rejected at construction: no environment
\* step is ever taken with it and no put fails on it.
C15_ZeroCapacityRejected ==
    (buffer_exists /\ size = 0) => (env_steps = 0 /\ err # "IndexError")

\* C16 (as claimed): the loop has a control point at every cycle boundary: when
\* the caller asks for termination at the end of cycle StopAfter, the on-policy
\* rollout of the next cycle is not made.
C16_CallbackStopsLoop ==
    cycle <= StopAfter

\* C17: a call of Runner.run steps every environment n_steps times and returns,
\* per environment, n_steps + 1 stacked observations and masks, n_steps actions,
\* rewards, mus and dones, and n_steps + n_stack encoded frames: the frames of
\* the stack at the start of the run, then the n_steps new frames in time order
\* (the newest frame of the stacked observation after step t is encoded frame
\* n_stack + t, and the last stacked observation is the Runner's stack after
\* the run).
C17_RunnerRunShape ==
    [][pc = "on_policy" =>
          LET r == runner_run
          IN  /\ env_steps' = env_steps + n_steps
              /\ \A i \in Envs :
                    /\ Len(r.obs[i]) = n_steps + 1 /\ Len(r.masks[i]) = n_steps + 1
                    /\ Len(r.actions[i]) = n_steps /\ Len(r.rewards[i]) = n_steps
                    /\ Len(r.mus[i]) = n_steps /\ Len(r.dones[i]) = n_steps
                    /\ Len(r.enc_obs[i]) = n_steps + n_stack
                    /\ \A k \in 1 .. n_stack : r.enc_obs[i][k] = obs[i][k]
                    /\ \A t \in 1 .. n_steps :
                          /\ r.enc_obs[i][n_stack + t] = EnvFrame(env_steps + t, i)
                          /\ r.obs[i][t + 1][n_stack] = r.enc_obs[i][n_stack + t]
                          /\ r.dones[i][t] = EnvDone(env_steps + t, i)
                          /\ r.masks[i][t + 1] = r.dones[i][t]
                    /\ r.obs[i][1] = obs[i] /\ r.masks[i][1] = runner_dones[i]
                    /\ r.obs[i][n_steps + 1] = obs'[i]
      ]_vars

\* C17 witness: the second run of two steps has been made
C17_Witness_SecondRun ==
    op = "run" /\ err = "none" /\ n_steps = 2 /\ env_steps = 4 /\ pc = "gate"

\* the env.step (0 for env.reset) that began the current episode of environment i
EpisodeStart(i) ==
    LET ends == {s \in 1 .. env_steps : EnvDone(s, i) = 1}
    IN  IF ends = {} THEN 0 ELSE CHOOSE s \in ends : \A u \in ends : u <= s

\* C18: lag position p of the Runner's stack of environment i holds the frame
\* of time env_steps - (n_stack - p) when that frame belongs to the current
\* episode, and zero otherwise: no frame from before a reset survives.
C18_StackHoldsCurrentEpisode ==
    pc # "idle" =>
        \A i \in Envs : \A p \in 1 .. n_stack :
            LET s == env_steps - (n_stack - p)
            IN  obs[i][p] = IF s >= EpisodeStart(i) THEN EnvFrame(s, i) ELSE 0

\* C18 witness: an environment terminated at the last step, after an episode of
\* two steps or more: its stack is zero but for the newest frame
C18_Witness_ZeroedAtReset ==
    /\ pc # "idle" /\ n_stack >= 2 /\ env_steps >= 2
    /\ \E i \in Envs :
          /\ EpisodeStart(i) = env_steps
          /\ EnvDone(env_steps - 1, i) = 0
          /\ \A p \in 1 .. (n_stack - 1) : obs[i][p] = 0
          /\ obs[i][n_stack] = EnvFrame(env_steps, i)


\* C25: with n_stack = 4, Buffer.decode of the enc_obs and dones that a
\* Runner.run returns is the obs (mb_obs) the same run returns: the same stack
\* for every environment and each of the n_steps + 1 steps.
C25_DecodeRebuildsRunnerObs ==
    (pc \in {"loop", "on_policy"} /\ n_stack = 4) =>
        /\ decode_ok(n_steps, n_stack)
        /\ decode(runner_run.enc_obs, runner_run.dones, n_steps, n_stack) = runner_run.obs

\* C25 witness: a later run with n_stack = 4 and two steps, begun inside an
\* episode, in which one environment ends an episode at the first step only
\* (the frames before the boundary are zeroed in the stacks after it) and the
\* other at the second step only
C25_Witness_BoundaryInsideRun ==
    /\ pc = "on_policy" /\ n_stack = 4 /\ n_steps = 2 /\ env_steps > 0
    /\ \E i \in Envs : /\ runner_run.dones[i][1] = 1
                       /\ runner_run.dones[i][2] = 0
                       /\ runner_run.obs[i][1][3] # 0
                       /\ runner_run.obs[i][2][3] = 0
                       /\ runner_run.obs[i][3][2] = 0
                       /\ runner_run.obs[i][3][3] # 0
    /\ \E i \in Envs : runner_run.dones[i][1] = 0 /\ runner_run.dones[i][2] = 1

\* C28: in what a Runner.run returns, dones[t] and masks[t + 1] are both the
\* flag of the t-th env.step of the run, and masks[0] is the flag the runner
\* holds from before the run; after a run, that flag is dones[n_steps - 1] of
\* the run just made, so it is masks[0] of the next.
C28_DonesAreShiftedMasks ==
    [][/\ \A i \in Envs :
            /\ \A t \in 1 .. n_steps :
                   /\ runner_run.dones[i][t] = runner_run.masks[i][t + 1]
                   /\ runner_run.dones[i][t] = EnvDone(env_steps + t, i)
            /\ runner_run.masks[i][1] = runner_dones[i]
            /\ Len(runner_run.masks[i]) = n_steps + 1
            /\ Len(runner_run.dones[i]) = n_steps
       /\ env_steps' # env_steps =>
            \A i \in Envs : runner_run'.masks[i][1] = runner_run.dones[i][n_steps]
      ]_vars

\* C28 witness: a second run is about to start with the flag of an episode
\* ended by the last step of the first run
C28_Witness_CarriedFlag ==
    /\ pc = "on_policy" /\ cycle = 2 /\ n_steps = 2
    /\ \E i \in Envs : runner_run.masks[i][1] = 1 /\ runner_run.masks[i][2] = 0

\* C29: learn ends only by leaving the loop after exactly
\* ceil(total_timesteps / (n_envs * n_steps)) cycles and calling env.close();
\* every update of cycle c (counted from 0), on policy or off policy, is given
\* the step counter c * n_envs * n_steps.
C29_LearnTerminates ==
    /\ pc # "crashed"
    /\ pc = "closed" => cycle = (total_timesteps + n_batch - 1) \div n_batch
    /\ (ret.kind = "train" /\ pc # "on_policy") => ret.steps = (cycle - 1) * n_batch

\* the six arrays before and after a step, and the six components of a batch
StorageBefore == <<enc_obs, actions, rewards, mus, dones, masks>>
StorageAfter == <<enc_obs', actions', rewards', mus', dones', masks'>>
Components(b) == <<b.enc_obs, b.actions, b.rewards, b.mus, b.dones, b.masks>>

\* a slot of array k (mus, array 4, has one more axis) that was never written
Unwritten(k, cell) ==
    \A i \in DOMAIN cell : \A j \in DOMAIN cell[i] :
        IF k = 4 THEN \A a \in DOMAIN cell[i][j] : cell[i][j][a] = Uninit
        ELSE cell[i][j] = Uninit

\* C24: the storage is changed by put only, and in one slot: a put writes the
\* six arrays at the next_idx of before the call and leaves the other slots as
\* they were; the arrays are allocated by the first put (their other slots
\* unwritten) and not again; get, has_atleast and can_sample leave the arrays,
\* next_idx and num_in_buffer unchanged.
C24_StorageFrame ==
    [][/\ op' # "put" => UNCHANGED bufVars
       /\ op' = "put" =>
            \A k \in 1 .. 6 :
                LET before == StorageBefore[k]
                    after == StorageAfter[k]
                IN  /\ after.alloc /\ DOMAIN after.data = 0 .. (size - 1)
                    /\ before.alloc =>
                          \A s \in 0 .. (size - 1) :
                              s # next_idx => after.data[s] = before.data[s]
                    /\ ~before.alloc =>
                          /\ Len(history) = 0
                          /\ \A s \in 0 .. (size - 1) :
                                 s # next_idx => Unwritten(k, after.data[s])
                    /\ err' = "none" =>
                          after.data[next_idx] =
                              Components(MkBatch(history'[Len(history')], n_steps, n_stack))[k]
                    /\ err' # "none" => (size = 0 /\ next_idx' = next_idx
                                         /\ num_in_buffer' = num_in_buffer)
      ]_vars

\* C24 witness: a put has overwritten a slot of a full buffer of two slots or
\* more, and a get has been made since
C24_Witness_OverwriteThenGet ==
    /\ size >= 2 /\ Len(history) > size /\ op = "get" /\ err = "none"

(***************************************************************************)
(* Properties of the Buffer, checked under SpecBuffer                      *)
(***************************************************************************)
\* slot s of the six arrays holds batch b
SlotHolds(s, b) ==
    /\ enc_obs.data[s] = b.enc_obs /\ actions.data[s] = b.actions
    /\ rewards.data[s] = b.rewards /\ mus.data[s] = b.mus
    /\ dones.data[s] = b.dones /\ masks.data[s] = b.masks

\* C1: with capacity size >= 1, once size + k batches have been put (k >= 0),
\* num_in_buffer = size and the slots hold exactly the last size batches put: the
\* batch of put number j (counted from 0) is in slot j mod size.
C1_BufferCircularity ==
    (size >= 1 /\ Len(history) >= size) =>
        /\ num_in_buffer = size
        /\ \A j \in (Len(history) - size) .. (Len(history) - 1) :
               SlotHolds(j % size, MkBatch(history[j + 1], n_steps, n_stack))

\* C1 witness: a buffer of two slots or more has wrapped around
C1_Witness_Wrapped == size >= 2 /\ Len(history) > size /\ op = "put"

\* C2 (as claimed): 0 <= num_in_buffer <= size, 0 <= next_idx < size, next_idx
\* is the number of puts so far mod size, and equals num_in_buffer while the
\* buffer is not full.
C2_IndexInvariant ==
    /\ 0 <= num_in_buffer /\ num_in_buffer <= size
    /\ 0 <= next_idx /\ next_idx < size
    /\ next_idx = Len(history) % size
    /\ (num_in_buffer < size => next_idx = num_in_buffer)

\* C6: get on a buffer that cannot be sampled raises EmptyBufferError and leaves
\* next_idx, num_in_buffer and the storage as they were; can_sample() is true
\* iff a put has stored a batch.
C6_GetOnEmptyBuffer ==
    /\ [](can_sample <=> Len(history) >= 1)
    /\ [][(op' = "get" /\ Len(history) = 0) =>
            (err' = EmptyBufferError /\ ret' = NoRet /\ UNCHANGED bufVars)]_vars

\* C6 witness: get has been called on the empty buffer
C6_Witness_GetOnEmpty == op = "get" /\ Len(history) = 0 /\ err = EmptyBufferError

\* C7 (as claimed): has_atleast(frames) is true iff num_in_buffer * n_steps >= frames
C7_HasAtleastThreshold ==
    op = "has_atleast" => (ret.val <=> (num_in_buffer * n_steps >= ret.frames))

\* C8: a get that returns drew, for every environment i, one index idx[i] of a
\* written slot (0 <= idx[i] < num_in_buffer), and every returned component of
\* environment i is row i of slot idx[i]: a batch that was put, never memory that
\* was not written, never another environment's row or another slot's.
C8_GetOneSlotPerEnv ==
    (op = "get" /\ err = "none") =>
        \A i \in Envs :
            /\ ret.idx[i] \in 0 .. (num_in_buffer - 1)
            /\ ret.enc_obs[i] = enc_obs.data[ret.idx[i]][i]
            /\ ret.actions[i] = actions.data[ret.idx[i]][i]
            /\ ret.rewards[i] = rewards.data[ret.idx[i]][i]
            /\ ret.mus[i] = mus.data[ret.idx[i]][i]
            /\ ret.dones[i] = dones.data[ret.idx[i]][i]
            /\ ret.masks[i] = masks.data[ret.idx[i]][i]
            /\ \E j \in 1 .. Len(history) :
                   LET b == MkBatch(history[j], n_steps, n_stack)
                   IN  /\ ret.enc_obs[i] = b.enc_obs[i]
                       /\ ret.actions[i] = b.actions[i]
                       /\ ret.rewards[i] = b.rewards[i]
                       /\ ret.mus[i] = b.mus[i]
                       /\ ret.dones[i] = b.dones[i]
                       /\ ret.masks[i] = b.masks[i]

\* C8 witness: a get returned rows of two different slots while a slot of the
\* buffer was still unwritten
C8_Witness_TwoSlots ==
    /\ op = "get" /\ err = "none"
    /\ num_in_buffer < size
    /\ ret.idx[0] # ret.idx[1]

====
